---- MODULE Spec2Model ----
(***************************************************************************)
(* Model of seccomp/generate_bpf.py: the two generators of the seccomp BPF *)
(* filters that block the TIOCSTI and TIOCLINUX ioctls, the byte encoding  *)
(* of their instructions, and the evaluation of an emitted filter on a     *)
(* seccomp_data record.                                                    *)
(*                                                                         *)
(* A 32-bit quantity is kept as its two 16-bit halves [hi, lo], so that    *)
(* 0x80000000 and 0xC000003E keep their full width.                        *)
(***************************************************************************)
EXTENDS Integers, Sequences, FiniteSets, TLC

\* ------------------------------------------------------------------ bounds
\* Filler values 0..MaxFill are written into the fields the filter is not
\* meant to look at (high word of args[1], instruction pointer, other args).
MaxFill == 1
\* Jump offsets 0..MaxJump are handed to bpf_jump when it is called directly.
MaxJump == 2

\* ------------------------------------------------------- 32-bit arithmetic
U32(hi, lo) == [hi |-> hi, lo |-> lo]

RECURSIVE BitAnd(_, _)
BitAnd(a, b) ==
    IF a = 0 \/ b = 0 THEN 0
    ELSE (a % 2) * (b % 2) + 2 * BitAnd(a \div 2, b \div 2)

RECURSIVE BitOr(_, _)
BitOr(a, b) ==
    IF a = 0 THEN b
    ELSE IF b = 0 THEN a
    ELSE (IF a % 2 = 1 \/ b % 2 = 1 THEN 1 ELSE 0) + 2 * BitOr(a \div 2, b \div 2)

WordAnd(v, w) == U32(BitAnd(v.hi, w.hi), BitAnd(v.lo, w.lo))

WordOr(v, w) == U32(BitOr(v.hi, w.hi), BitOr(v.lo, w.lo))

\* ------------------------------------------------------ program constants
SECCOMP_RET_KILL_PROCESS == U32(\h8000, \h0000)
SECCOMP_RET_ERRNO == U32(\h0005, \h0000)
SECCOMP_RET_ALLOW == U32(\h7FFF, \h0000)
SECCOMP_RET_DATA == U32(\h0000, \hFFFF)

BPF_LD == \h00
BPF_JMP == \h05
BPF_RET == \h06
BPF_W == \h00
BPF_ABS == \h20
BPF_JEQ == \h10
BPF_JSET == \h40
BPF_K == \h00

AUDIT_ARCH_X86_64 == U32(\hC000, \h003E)
AUDIT_ARCH_AARCH64 == U32(\hC000, \h00B7)

NR_IOCTL_X86_64 == U32(0, 16)
NR_IOCTL_AARCH64 == U32(0, 29)

X32_SYSCALL_BIT == U32(\h4000, \h0000)

TIOCSTI == U32(0, \h5412)
TIOCLINUX == U32(0, \h541C)

OFF_NR == U32(0, 0)
OFF_ARCH == U32(0, 4)
\* Mutant: the offset of the high word of args[1] (the big-endian position).
Mut_OFF_ARG1_HI == U32(0, 28)

OFF_ARG1_LO == U32(0, 24)

EPERM == U32(0, 1)

RET_ERRNO(e) == WordOr(SECCOMP_RET_ERRNO, WordAnd(e, SECCOMP_RET_DATA))

\* ------------------------------------------------------------ the encoder
\* struct.pack "<H": two bytes, least significant first.
LE16(n) == <<n % 256, n \div 256>>

\* struct.pack "<I": four bytes, least significant first.
LE32(w) == LE16(w.lo) \o LE16(w.hi)

\* Mutant: struct.pack(">HBBI", ...), most significant byte first.
Mut_pack_big_endian(code, jt, jf, k) ==
    <<code \div 256, code % 256, jt, jf,
      k.hi \div 256, k.hi % 256, k.lo \div 256, k.lo % 256>>

\* struct.pack("<HBBI", code, jt, jf, k)
pack_HBBI(code, jt, jf, k) == LE16(code) \o <<jt, jf>> \o LE32(k)

bpf_stmt(code, k) == pack_HBBI(code, 0, 0, k)

bpf_jump(code, k, jt, jf) == pack_HBBI(code, jt, jf, k)

\* b"".join(instructions)
RECURSIVE Join(_)
Join(records) ==
    IF records = <<>> THEN <<>>
    ELSE Head(records) \o Join(Tail(records))

\* BPF_LD | BPF_W | BPF_ABS, BPF_JMP | BPF_JEQ | BPF_K, ... as written at
\* every call site.
Or3(a, b, c) == BitOr(BitOr(a, b), c)

\* --------------------------------------------------------- the generators
\* Mutants of the instruction lists: the same emission with the offsets of
\* the jumps given as parameters, and one offset changed.
X86Variant(arch, x32, ioctl, sti, linux) ==
    << bpf_stmt(Or3(BPF_LD, BPF_W, BPF_ABS), OFF_ARCH),
       bpf_jump(Or3(BPF_JMP, BPF_JEQ, BPF_K), AUDIT_ARCH_X86_64, arch[1], arch[2]),
       bpf_stmt(BitOr(BPF_RET, BPF_K), SECCOMP_RET_KILL_PROCESS),
       bpf_stmt(Or3(BPF_LD, BPF_W, BPF_ABS), OFF_NR),
       bpf_jump(Or3(BPF_JMP, BPF_JSET, BPF_K), X32_SYSCALL_BIT, x32[1], x32[2]),
       bpf_stmt(BitOr(BPF_RET, BPF_K), RET_ERRNO(EPERM)),
       bpf_jump(Or3(BPF_JMP, BPF_JEQ, BPF_K), NR_IOCTL_X86_64, ioctl[1], ioctl[2]),
       bpf_stmt(BitOr(BPF_RET, BPF_K), SECCOMP_RET_ALLOW),
       bpf_stmt(Or3(BPF_LD, BPF_W, BPF_ABS), OFF_ARG1_LO),
       bpf_jump(Or3(BPF_JMP, BPF_JEQ, BPF_K), TIOCSTI, sti[1], sti[2]),
       bpf_jump(Or3(BPF_JMP, BPF_JEQ, BPF_K), TIOCLINUX, linux[1], linux[2]),
       bpf_stmt(BitOr(BPF_RET, BPF_K), SECCOMP_RET_ALLOW),
       bpf_stmt(BitOr(BPF_RET, BPF_K), RET_ERRNO(EPERM)) >>

Aarch64Variant(arch, ioctl, sti, linux) ==
    << bpf_stmt(Or3(BPF_LD, BPF_W, BPF_ABS), OFF_ARCH),
       bpf_jump(Or3(BPF_JMP, BPF_JEQ, BPF_K), AUDIT_ARCH_AARCH64, arch[1], arch[2]),
       bpf_stmt(BitOr(BPF_RET, BPF_K), SECCOMP_RET_KILL_PROCESS),
       bpf_stmt(Or3(BPF_LD, BPF_W, BPF_ABS), OFF_NR),
       bpf_jump(Or3(BPF_JMP, BPF_JEQ, BPF_K), NR_IOCTL_AARCH64, ioctl[1], ioctl[2]),
       bpf_stmt(BitOr(BPF_RET, BPF_K), SECCOMP_RET_ALLOW),
       bpf_stmt(Or3(BPF_LD, BPF_W, BPF_ABS), OFF_ARG1_LO),
       bpf_jump(Or3(BPF_JMP, BPF_JEQ, BPF_K), TIOCSTI, sti[1], sti[2]),
       bpf_jump(Or3(BPF_JMP, BPF_JEQ, BPF_K), TIOCLINUX, linux[1], linux[2]),
       bpf_stmt(BitOr(BPF_RET, BPF_K), SECCOMP_RET_ALLOW),
       bpf_stmt(BitOr(BPF_RET, BPF_K), RET_ERRNO(EPERM)) >>

\* [9] skips one instruction instead of two: TIOCSTI lands on the allow.
Mut_x86_64_tiocsti_off_by_one ==
    X86Variant(<<1, 0>>, <<0, 1>>, <<1, 0>>, <<1, 0>>, <<1, 0>>)

\* [4] with its offsets exchanged: an x32 syscall reaches the ioctl test.
Mut_x86_64_x32_swapped ==
    X86Variant(<<1, 0>>, <<1, 0>>, <<1, 0>>, <<2, 0>>, <<1, 0>>)

\* [10] with its offsets exchanged: an unblocked request code is denied.
Mut_x86_64_tioclinux_swapped ==
    X86Variant(<<1, 0>>, <<0, 1>>, <<1, 0>>, <<2, 0>>, <<0, 1>>)

\* [10] skips two instructions: TIOCLINUX jumps past the last instruction.
Mut_x86_64_tioclinux_off_by_one ==
    X86Variant(<<1, 0>>, <<0, 1>>, <<1, 0>>, <<2, 0>>, <<2, 0>>)

\* The list of instructions that generate_x86_64_filter has appended when it
\* reaches its return.
x86_64_instructions ==
    << \* [0] Load architecture
       bpf_stmt(Or3(BPF_LD, BPF_W, BPF_ABS), OFF_ARCH),
       \* [1] Verify architecture == x86_64, else kill
       bpf_jump(Or3(BPF_JMP, BPF_JEQ, BPF_K), AUDIT_ARCH_X86_64, 1, 0),
       \* [2] Wrong architecture - kill process
       bpf_stmt(BitOr(BPF_RET, BPF_K), SECCOMP_RET_KILL_PROCESS),
       \* [3] Load syscall number
       bpf_stmt(Or3(BPF_LD, BPF_W, BPF_ABS), OFF_NR),
       \* [4] Check x32 ABI bit - if set, deny with EPERM
       bpf_jump(Or3(BPF_JMP, BPF_JSET, BPF_K), X32_SYSCALL_BIT, 0, 1),
       \* [5] x32 syscall detected - return EPERM
       bpf_stmt(BitOr(BPF_RET, BPF_K), RET_ERRNO(EPERM)),
       \* [6] Check if syscall == ioctl
       bpf_jump(Or3(BPF_JMP, BPF_JEQ, BPF_K), NR_IOCTL_X86_64, 1, 0),
       \* [7] Not ioctl - allow
       bpf_stmt(BitOr(BPF_RET, BPF_K), SECCOMP_RET_ALLOW),
       \* [8] Load ioctl cmd (arg1, low 32 bits)
       bpf_stmt(Or3(BPF_LD, BPF_W, BPF_ABS), OFF_ARG1_LO),
       \* [9] Check if cmd == TIOCSTI
       bpf_jump(Or3(BPF_JMP, BPF_JEQ, BPF_K), TIOCSTI, 2, 0),
       \* [10] Check if cmd == TIOCLINUX
       bpf_jump(Or3(BPF_JMP, BPF_JEQ, BPF_K), TIOCLINUX, 1, 0),
       \* [11] Not a blocked ioctl - allow
       bpf_stmt(BitOr(BPF_RET, BPF_K), SECCOMP_RET_ALLOW),
       \* [12] Blocked ioctl - return EPERM
       bpf_stmt(BitOr(BPF_RET, BPF_K), RET_ERRNO(EPERM)) >>

generate_x86_64_filter == Join(x86_64_instructions)

\* [1] with its offsets exchanged: a foreign architecture is let through.
Mut_aarch64_arch_swapped ==
    Aarch64Variant(<<0, 1>>, <<1, 0>>, <<2, 0>>, <<1, 0>>)

\* [4] with its offsets exchanged: every syscall but ioctl has its second
\* argument compared with the blocked codes.
Mut_aarch64_ioctl_swapped ==
    Aarch64Variant(<<1, 0>>, <<0, 1>>, <<2, 0>>, <<1, 0>>)

\* [8] skips two instructions: its target is one past the last instruction.
Mut_aarch64_tioclinux_off_by_one ==
    Aarch64Variant(<<1, 0>>, <<1, 0>>, <<2, 0>>, <<2, 0>>)

\* The list of instructions that generate_aarch64_filter has appended when
\* it reaches its return.
aarch64_instructions ==
    << \* [0] Load architecture
       bpf_stmt(Or3(BPF_LD, BPF_W, BPF_ABS), OFF_ARCH),
       \* [1] Verify architecture matches, else kill
       bpf_jump(Or3(BPF_JMP, BPF_JEQ, BPF_K), AUDIT_ARCH_AARCH64, 1, 0),
       \* [2] Wrong architecture - kill process
       bpf_stmt(BitOr(BPF_RET, BPF_K), SECCOMP_RET_KILL_PROCESS),
       \* [3] Load syscall number
       bpf_stmt(Or3(BPF_LD, BPF_W, BPF_ABS), OFF_NR),
       \* [4] Check if syscall == ioctl
       bpf_jump(Or3(BPF_JMP, BPF_JEQ, BPF_K), NR_IOCTL_AARCH64, 1, 0),
       \* [5] Not ioctl - allow
       bpf_stmt(BitOr(BPF_RET, BPF_K), SECCOMP_RET_ALLOW),
       \* [6] Load ioctl cmd (arg1, low 32 bits)
       bpf_stmt(Or3(BPF_LD, BPF_W, BPF_ABS), OFF_ARG1_LO),
       \* [7] Check if cmd == TIOCSTI
       bpf_jump(Or3(BPF_JMP, BPF_JEQ, BPF_K), TIOCSTI, 2, 0),
       \* [8] Check if cmd == TIOCLINUX
       bpf_jump(Or3(BPF_JMP, BPF_JEQ, BPF_K), TIOCLINUX, 1, 0),
       \* [9] Not a blocked ioctl - allow
       bpf_stmt(BitOr(BPF_RET, BPF_K), SECCOMP_RET_ALLOW),
       \* [10] Blocked ioctl - return EPERM
       bpf_stmt(BitOr(BPF_RET, BPF_K), RET_ERRNO(EPERM)) >>

\* Mutant: the final return is never appended.
Mut_generate_aarch64_without_last ==
    Join(SubSeq(Aarch64Variant(<<1, 0>>, <<1, 0>>, <<2, 0>>, <<1, 0>>), 1, 10))

generate_aarch64_filter == Join(aarch64_instructions)
\* ------------------------------------------- evaluation of a filter
\* The evaluation context: struct seccomp_data as 32-bit words at byte
\* offsets 0..60 (nr, arch, instruction_pointer, args[0..5]), each 64-bit
\* field with its low word first.
Offsets == {4 * i : i \in 0..15}

Zero == U32(0, 0)

SeccompData(nr, archWord, ip, arg0, arg1lo, arg1hi, arg2) ==
    [o \in Offsets |->
        CASE o = 0 -> nr
          [] o = 4 -> archWord
          [] o = 8 -> ip
          [] o = 16 -> arg0
          [] o = 24 -> arg1lo
          [] o = 28 -> arg1hi
          [] o = 32 -> arg2
          [] OTHER -> Zero]

\* One 8-byte record read back as the fields of a struct sock_filter.
DecodeRecord(r) ==
    [code |-> r[1] + 256 * r[2],
     jt |-> r[3],
     jf |-> r[4],
     k |-> U32(r[7] + 256 * r[8], r[5] + 256 * r[6])]

NInstr(f) == Len(f) \div 8

Insn(f, i) == DecodeRecord(SubSeq(f, 8 * i + 1, 8 * i + 8))

\* BPF_CLASS(code) is code & 0x07.
BPF_CLASS(code) == code % 8

Load32(d, k) == IF k.hi = 0 /\ k.lo \in DOMAIN d THEN d[k.lo] ELSE Zero

\* The machine after executing the instruction at m.pc of filter f on the
\* context d.  m.ret is <<>> until a return has been executed.
Exec(f, d, m) ==
    LET ins == Insn(f, m.pc)
        done == [m EXCEPT !.steps = m.steps + 1,
                          !.executed = m.executed \cup {m.pc}]
    IN  CASE ins.code = Or3(BPF_LD, BPF_W, BPF_ABS) ->
               [done EXCEPT !.A = Load32(d, ins.k),
                            !.loaded = m.loaded \cup {ins.k},
                            !.pc = m.pc + 1]
          [] ins.code = Or3(BPF_JMP, BPF_JEQ, BPF_K) ->
               [done EXCEPT !.pc = m.pc + 1 + (IF m.A = ins.k THEN ins.jt ELSE ins.jf)]
          [] ins.code = Or3(BPF_JMP, BPF_JSET, BPF_K) ->
               [done EXCEPT !.pc = m.pc + 1 +
                                   (IF WordAnd(m.A, ins.k) # Zero THEN ins.jt ELSE ins.jf)]
          [] ins.code = BitOr(BPF_RET, BPF_K) ->
               [done EXCEPT !.ret = <<ins.k>>]
          [] OTHER -> m

Start == [pc |-> 0, A |-> Zero, loaded |-> {}, executed |-> {}, steps |-> 0, ret |-> <<>>]

\* The value the filter f returns on the context d: <<value>>, or <<>> when
\* the evaluation leaves the program or meets an unknown instruction.
RECURSIVE RunFrom(_, _, _)
RunFrom(f, d, m) ==
    IF m.ret # <<>> \/ m.pc >= NInstr(f) THEN m.ret
    ELSE LET n == Exec(f, d, m)
         IN  IF n = m THEN <<>> ELSE RunFrom(f, d, n)

Run(f, d) == RunFrom(f, d, Start)

\* ------------------------------------------------------------- the inputs
Fill == {U32(0, v) : v \in 0..MaxFill} \cup {TIOCSTI}

ArchWords ==
    {AUDIT_ARCH_X86_64, AUDIT_ARCH_AARCH64,
     U32(\h4000, \h0003), U32(\h8000, \h003E), U32(\h8000, \h00B7)}

NrWords == {U32(h, l) : h \in {0, 1, \h4000, \hC000}, l \in {0, 16, 29}}

Arg1LowWords == {U32(h, l) : h \in {0, 1}, l \in {0, \h5412, \h541C}}

Contexts ==
    {SeccompData(nr, a, other, other, lo, hi, other) :
        nr \in NrWords, a \in ArchWords, lo \in Arg1LowWords,
        hi \in Fill, other \in Fill}

Codes ==
    {Or3(BPF_LD, BPF_W, BPF_ABS), Or3(BPF_JMP, BPF_JEQ, BPF_K),
     Or3(BPF_JMP, BPF_JSET, BPF_K), BitOr(BPF_RET, BPF_K), \h1234}

Operands ==
    {Zero, OFF_ARCH, TIOCSTI, AUDIT_ARCH_X86_64, SECCOMP_RET_KILL_PROCESS,
     RET_ERRNO(EPERM), U32(\h0102, \h0304)}

\* ------------------------------------------------------------------ state
VARIABLES
    phase,     \* "idle", "encoded", "generated", "running", "returned"
    arch,      \* the generator that ran: "none", "x86_64", "aarch64"
    filter,    \* the bytes the generator returned
    call,      \* the arguments of the last direct bpf_stmt / bpf_jump call
    record,    \* the bytes that call returned
    data,      \* the evaluation context
    vm         \* the evaluating machine: pc, A, loaded, executed, steps, ret

vars == <<phase, arch, filter, call, record, data, vm>>

NoData == SeccompData(Zero, Zero, Zero, Zero, Zero, Zero, Zero)

Init ==
    /\ phase = "idle"
    /\ arch = "none"
    /\ filter = <<>>
    /\ call = <<>>
    /\ record = <<>>
    /\ data = NoData
    /\ vm = Start

CallBpfStmt ==
    /\ phase = "idle"
    /\ \E code \in Codes, k \in Operands :
          /\ call' = [form |-> "stmt", code |-> code, jt |-> 0, jf |-> 0, k |-> k]
          /\ record' = bpf_stmt(code, k)
    /\ phase' = "encoded"
    /\ UNCHANGED <<arch, filter, data, vm>>

CallBpfJump ==
    /\ phase = "idle"
    /\ \E code \in Codes, k \in Operands, jt \in 0..MaxJump, jf \in 0..MaxJump :
          /\ call' = [form |-> "jump", code |-> code, jt |-> jt, jf |-> jf, k |-> k]
          /\ record' = bpf_jump(code, k, jt, jf)
    /\ phase' = "encoded"
    /\ UNCHANGED <<arch, filter, data, vm>>

GenerateX86_64 ==
    /\ phase = "idle"
    /\ arch' = "x86_64"
    /\ filter' = generate_x86_64_filter
    /\ phase' = "generated"
    /\ UNCHANGED <<call, record, data, vm>>

GenerateAarch64 ==
    /\ phase = "idle"
    /\ arch' = "aarch64"
    /\ filter' = generate_aarch64_filter
    /\ phase' = "generated"
    /\ UNCHANGED <<call, record, data, vm>>

\* The emitted filter is presented with a context.
Simulate ==
    /\ phase = "generated"
    /\ \E d \in Contexts : data' = d
    /\ vm' = Start
    /\ phase' = "running"
    /\ UNCHANGED <<arch, filter, call, record>>

\* The three kinds of instruction the evaluation executes.
ExecLd ==
    /\ phase = "running"
    /\ vm.pc < NInstr(filter)
    /\ BPF_CLASS(Insn(filter, vm.pc).code) = BPF_LD
    /\ vm' = Exec(filter, data, vm)
    /\ vm' # vm
    /\ UNCHANGED <<phase, arch, filter, call, record, data>>

ExecJmp ==
    /\ phase = "running"
    /\ vm.pc < NInstr(filter)
    /\ BPF_CLASS(Insn(filter, vm.pc).code) = BPF_JMP
    /\ vm' = Exec(filter, data, vm)
    /\ vm' # vm
    /\ UNCHANGED <<phase, arch, filter, call, record, data>>

ExecRet ==
    /\ phase = "running"
    /\ vm.pc < NInstr(filter)
    /\ BPF_CLASS(Insn(filter, vm.pc).code) = BPF_RET
    /\ vm' = Exec(filter, data, vm)
    /\ vm' # vm
    /\ phase' = "returned"
    /\ UNCHANGED <<arch, filter, call, record, data>>

Next ==
    \/ CallBpfStmt
    \/ CallBpfJump
    \/ GenerateX86_64
    \/ GenerateAarch64
    \/ Simulate
    \/ ExecLd
    \/ ExecJmp
    \/ ExecRet

Spec == Init /\ [][Next]_vars

\* An evaluation that has started runs to its end.
FairSpec == Spec /\ WF_vars(ExecLd \/ ExecJmp \/ ExecRet)

TypeOK ==
    /\ phase \in {"idle", "encoded", "generated", "running", "returned"}
    /\ arch \in {"none", "x86_64", "aarch64"}
    /\ \A i \in 1..Len(filter) : filter[i] \in 0..255
    /\ \A i \in 1..Len(record) : record[i] \in 0..255
    /\ vm.pc \in Nat

\* ------------------------------------------------------------- the claims
\* The values the claims name, written out as numbers.
RetKill == U32(\h8000, \h0000)

RetAllow == U32(\h7FFF, \h0000)

RetDeny == U32(\h0005, \h0001)

ExpectedArch(a) == IF a = "x86_64" THEN U32(\hC000, \h003E) ELSE U32(\hC000, \h00B7)

IoctlNr(a) == IF a = "x86_64" THEN U32(0, 16) ELSE U32(0, 29)

BlockedCodes == {U32(0, \h5412), U32(0, \h541C)}

Evaluating == phase \in {"running", "returned"}

HasX32Bit(nr) == BitAnd(nr.hi, \h4000) # 0

\* While the evaluation runs, the program counter is inside the program.
InProgram == phase = "running" => vm.pc < NInstr(filter)

\* C1: on the expected architecture, an ioctl whose request code (low word
\* of args[1]) is TIOCSTI or TIOCLINUX is answered by both programs with
\* SECCOMP_RET_ERRNO | EPERM = 0x00050001.
C1_BlockedIoctlDenied ==
    (/\ Evaluating
     /\ data[4] = ExpectedArch(arch)
     /\ data[0] = IoctlNr(arch)
     /\ data[24] \in BlockedCodes)
    => /\ InProgram
       /\ phase = "returned" => vm.ret = <<RetDeny>>

C1_Witness ==
    /\ phase = "returned"
    /\ arch = "aarch64"
    /\ data[4] = ExpectedArch(arch)
    /\ data[0] = IoctlNr(arch)
    /\ data[24] = U32(0, \h541C)
    /\ vm.ret = <<RetDeny>>

\* C2: the x86_64 program denies every syscall whose number has the x32 bit
\* 0x40000000 set, whatever the arguments and the rest of the number are,
\* and never executes the ioctl comparison [6] for it.
C2_X32Denied ==
    (/\ Evaluating
     /\ arch = "x86_64"
     /\ data[4] = ExpectedArch(arch)
     /\ HasX32Bit(data[0]))
    => /\ InProgram
       /\ 6 \notin vm.executed
       /\ vm.pc # 6
       /\ phase = "returned" => vm.ret = <<RetDeny>>

C2_Witness ==
    /\ phase = "returned"
    /\ arch = "x86_64"
    /\ data[4] = ExpectedArch(arch)
    /\ data[0] = U32(\h4000, 16)
    /\ data[24] = Zero
    /\ vm.ret = <<RetDeny>>

\* C3: a context whose arch differs from the program's expected constant is
\* answered with SECCOMP_RET_KILL_PROCESS, and only the arch field has been
\* loaded by then.
C3_WrongArchKilled ==
    (/\ Evaluating
     /\ data[4] # ExpectedArch(arch))
    => /\ InProgram
       /\ vm.loaded \subseteq {U32(0, 4)}
       /\ phase = "returned" => vm.ret = <<RetKill>>

C3_Witness ==
    /\ phase = "returned"
    /\ data[4] # ExpectedArch(arch)
    /\ data[0] = IoctlNr(arch)
    /\ data[24] = U32(0, \h5412)
    /\ vm.loaded = {U32(0, 4)}
    /\ vm.ret = <<RetKill>>

\* C4 as stated: on the expected architecture every syscall number other
\* than the ioctl number is allowed, on both architectures.
C4_Original ==
    (/\ phase = "returned"
     /\ data[4] = ExpectedArch(arch)
     /\ data[0] # IoctlNr(arch))
    => vm.ret = <<RetAllow>>

\* C4 as amended: on the expected architecture every syscall number other
\* than the ioctl number is allowed, except that the x86_64 program denies
\* the numbers that have the x32 bit set.
C4_NonIoctlAllowed ==
    (/\ Evaluating
     /\ data[4] = ExpectedArch(arch)
     /\ data[0] # IoctlNr(arch)
     /\ ~(arch = "x86_64" /\ HasX32Bit(data[0])))
    => /\ InProgram
       /\ phase = "returned" => vm.ret = <<RetAllow>>

C4_Witness ==
    /\ phase = "returned"
    /\ arch = "aarch64"
    /\ data[4] = ExpectedArch(arch)
    /\ data[0] = U32(\h4000, 29)
    /\ data[24] = U32(0, \h5412)
    /\ vm.ret = <<RetAllow>>

\* C5: on the expected architecture, an ioctl whose request code is neither
\* TIOCSTI nor TIOCLINUX is allowed.
C5_OtherIoctlAllowed ==
    (/\ Evaluating
     /\ data[4] = ExpectedArch(arch)
     /\ data[0] = IoctlNr(arch)
     /\ data[24] \notin BlockedCodes)
    => /\ InProgram
       /\ phase = "returned" => vm.ret = <<RetAllow>>

C5_Witness ==
    /\ phase = "returned"
    /\ arch = "x86_64"
    /\ data[4] = ExpectedArch(arch)
    /\ data[0] = IoctlNr(arch)
    /\ data[24] = U32(1, \h5412)
    /\ vm.ret = <<RetAllow>>

\* C6: every jump of an emitted sequence has both targets inside it:
\* i + 1 + jt < length and i + 1 + jf < length.
C6_JumpsInBounds ==
    arch # "none" =>
        \A i \in 0..(NInstr(filter) - 1) :
            BPF_CLASS(Insn(filter, i).code) = BPF_JMP =>
                /\ i + 1 + Insn(filter, i).jt < NInstr(filter)
                /\ i + 1 + Insn(filter, i).jf < NInstr(filter)

C6_Witness ==
    /\ phase = "generated"
    /\ arch = "aarch64"
    /\ BPF_CLASS(Insn(filter, 7).code) = BPF_JMP
    /\ Insn(filter, 7).jt = 2
    /\ NInstr(filter) = 11

\* C7: generate_x86_64_filter returns 13 instructions in 104 bytes and
\* generate_aarch64_filter 11 instructions in 88 bytes, a whole number of
\* 8-byte records each.
C7_InstructionCounts ==
    /\ arch # "none" => Len(filter) % 8 = 0
    /\ arch = "x86_64" => Len(filter) = 104 /\ Len(filter) \div 8 = 13
    /\ arch = "aarch64" => Len(filter) = 88 /\ Len(filter) \div 8 = 11

C7_Witness ==
    /\ phase = "generated"
    /\ arch = "aarch64"
    /\ Len(filter) = 88

\* The (code, jt, jf, k) of the instructions each generator emits, in order.
Ins(code, jt, jf, k) == [code |-> code, jt |-> jt, jf |-> jf, k |-> k]

Emitted(a) ==
    IF a = "x86_64"
    THEN << Ins(\h20, 0, 0, U32(0, 4)),
            Ins(\h15, 1, 0, U32(\hC000, \h003E)),
            Ins(\h06, 0, 0, U32(\h8000, 0)),
            Ins(\h20, 0, 0, U32(0, 0)),
            Ins(\h45, 0, 1, U32(\h4000, 0)),
            Ins(\h06, 0, 0, U32(\h0005, 1)),
            Ins(\h15, 1, 0, U32(0, 16)),
            Ins(\h06, 0, 0, U32(\h7FFF, 0)),
            Ins(\h20, 0, 0, U32(0, 24)),
            Ins(\h15, 2, 0, U32(0, \h5412)),
            Ins(\h15, 1, 0, U32(0, \h541C)),
            Ins(\h06, 0, 0, U32(\h7FFF, 0)),
            Ins(\h06, 0, 0, U32(\h0005, 1)) >>
    ELSE << Ins(\h20, 0, 0, U32(0, 4)),
            Ins(\h15, 1, 0, U32(\hC000, \h00B7)),
            Ins(\h06, 0, 0, U32(\h8000, 0)),
            Ins(\h20, 0, 0, U32(0, 0)),
            Ins(\h15, 1, 0, U32(0, 29)),
            Ins(\h06, 0, 0, U32(\h7FFF, 0)),
            Ins(\h20, 0, 0, U32(0, 24)),
            Ins(\h15, 2, 0, U32(0, \h5412)),
            Ins(\h15, 1, 0, U32(0, \h541C)),
            Ins(\h06, 0, 0, U32(\h7FFF, 0)),
            Ins(\h06, 0, 0, U32(\h0005, 1)) >>

\* The 8 bytes of the layout: code (2, little-endian), jt, jf, k (4,
\* little-endian).
Layout(c) ==
    << c.code % 256, c.code \div 256, c.jt, c.jf,
       c.k.lo % 256, c.k.lo \div 256, c.k.hi % 256, c.k.hi \div 256 >>

\* C8: a record of bpf_stmt or bpf_jump is the 8 bytes of the layout, with
\* jt = jf = 0 from bpf_stmt; a generator's output is its records one after
\* the other and nothing else, and read 8 bytes at a time it gives back the
\* emitted (code, jt, jf, k) list.
C8_RecordLayout ==
    /\ phase = "encoded" =>
          /\ Len(record) = 8
          /\ record = Layout(call)
          /\ call.form = "stmt" => record[3] = 0 /\ record[4] = 0
          /\ DecodeRecord(record) = Ins(call.code, call.jt, call.jf, call.k)
    /\ arch # "none" =>
          /\ Len(filter) = 8 * Len(Emitted(arch))
          /\ \A i \in 1..Len(Emitted(arch)) :
                /\ SubSeq(filter, 8 * i - 7, 8 * i) = Layout(Emitted(arch)[i])
                /\ Insn(filter, i - 1) = Emitted(arch)[i]

C8_Witness ==
    /\ phase = "encoded"
    /\ call.form = "jump"
    /\ call.code = \h1234
    /\ call.jt = 1
    /\ call.jf = 2
    /\ call.k = U32(\h0102, \h0304)
    /\ record = <<\h34, \h12, 1, 2, 4, 3, 2, 1>>

\* The state part of C9.
C9_Inv ==
    Evaluating =>
        /\ InProgram
        /\ vm.steps <= NInstr(filter)
        /\ \A e \in vm.executed : e < vm.pc \/ (phase = "returned" /\ e = vm.pc)
        /\ (phase = "running" /\ BPF_CLASS(Insn(filter, vm.pc).code) = BPF_JMP)
              => vm.loaded # {}
        /\ phase = "returned" =>
              /\ BPF_CLASS(Insn(filter, vm.pc).code) = BPF_RET
              /\ vm.ret \in {<<RetKill>>, <<RetAllow>>, <<RetDeny>>}

\* The step part of C9: an executed instruction that is no return moves the
\* program counter forward.
C9_Forward ==
    (phase = "running" /\ vm' # vm) =>
        \/ vm'.pc > vm.pc
        \/ phase' = "returned" /\ vm'.pc = vm.pc

\* C9: every evaluation moves the program counter forward only, stays inside
\* the program, executes at most as many instructions as the program has
\* and ends at a return of SECCOMP_RET_KILL_PROCESS, SECCOMP_RET_ALLOW or
\* SECCOMP_RET_ERRNO | EPERM; a jump is executed only after a load.
C9_Terminates ==
    /\ []C9_Inv
    /\ [][C9_Forward]_vars
    /\ (phase = "running") ~> (phase = "returned")

C9_Witness ==
    /\ phase = "returned"
    /\ arch = "x86_64"
    /\ vm.steps = 9
    /\ vm.pc = 11
    /\ vm.ret = <<RetAllow>>

\* C10: the verdict is a function of arch, nr and the low word of args[1]:
\* every context that agrees with the evaluated one on these three gets the
\* same return value, whatever the high word of args[1], the instruction
\* pointer and the other arguments hold.
C10_VerdictDependsOnThree ==
    phase = "returned" =>
        \A hi \in Fill, ip \in Fill, other \in Fill :
            Run(filter, SeccompData(data[0], data[4], ip, other, data[24], hi, other))
                = vm.ret

C10_Witness ==
    /\ phase = "returned"
    /\ data[4] = ExpectedArch(arch)
    /\ data[0] = IoctlNr(arch)
    /\ data[24] = U32(0, \h5412)
    /\ data[28] = U32(0, 1)
    /\ vm.ret = <<RetDeny>>
====
